---- MODULE Spec2Model ----
(***************************************************************************)
(* Model of vagrant.py: the parser of `vagrant ssh-config` output          *)
(* (get_host_dicts: a parsimonious PEG grammar and the Walker visitor),    *)
(* the inventory grouping (get_role, get_groups) and the command line      *)
(* entry point (main under the __main__ guard).                            *)
(*                                                                         *)
(* A text is a sequence of one-character strings.  Positions are 1-based:  *)
(* a rule is matched at position pos and its node records the position     *)
(* `end` of the first character it did not consume.                        *)
(***************************************************************************)
EXTENDS Integers, Sequences, FiniteSets, TLC

VARIABLES
    \* get_host_dicts: the text typed so far, its lines, typing or done, the
    \* value returned
    text, lines, pc, result,
    \* get_groups: its argument and the value returned
    host_dicts, groups,
    \* main: sys.argv, the parsed arguments, the position in main, the branch
    \* taken, the `vagrant ssh-config` process, the log file, what was
    \* printed, the exception in flight and the exit code of the program
    argv, args, mpc, branch, proc, log, printed, raised, exit_code

pvars == <<text, lines, pc, result>>
gvars == <<host_dicts, groups>>
mvars == <<argv, args, mpc, branch, proc, log, printed, raised, exit_code>>
vars  == <<pvars, gvars, mvars>>

-----------------------------------------------------------------------------
(* Bounds of the model *)

\* lines typed into a document (specification Spec)
MaxLines == 7
\* body lines typed after the header of a single block (specification SpecBlock)
MaxBody == 3

-----------------------------------------------------------------------------
(* Character classes of the grammar's regular expressions *)

NL == "\n"
SP == " "

Upper == {"A","B","C","D","E","F","G","H","I","J","K","L","M",
          "N","O","P","Q","R","S","T","U","V","W","X","Y","Z"}
Lower == {"a","b","c","d","e","f","g","h","i","j","k","l","m",
          "n","o","p","q","r","s","t","u","v","w","x","y","z"}
Digits == {"0","1","2","3","4","5","6","7","8","9"}

\* [A-z]: the ASCII range from A to z, which also holds the six characters
\* between Z and a (of which the model's alphabet keeps four)
KeyChars == Upper \cup Lower \cup {"[", "]", "^", "_"}
\* [A-z0-9-]
HostnameChars == KeyChars \cup Digits \cup {"-"}
\* \s (the characters of it that the model's texts use)
Whitespace == {SP, NL, "\t"}

Range(s) == {s[i] : i \in 1..Len(s)}

\* The end of the longest run of characters of S starting at pos.
RECURSIVE Span(_, _, _)
Span(t, pos, S) ==
    IF pos <= Len(t) /\ t[pos] \in S THEN Span(t, pos + 1, S) ELSE pos

\* As Span, for a run of at most max characters.
RECURSIVE SpanMax(_, _, _, _)
SpanMax(t, pos, S, max) ==
    IF max > 0 /\ pos <= Len(t) /\ t[pos] \in S
    THEN SpanMax(t, pos + 1, S, max - 1) ELSE pos

Slice(t, from, to) == SubSeq(t, from, to - 1)

\* A failed match
NoMatch == [ok |-> FALSE, end |-> 0]

\* The node of a regular expression that matched [from, to); every regular
\* expression of the grammar needs at least one character.
RegexNode(name, t, from, to) ==
    IF to > from
    THEN [ok |-> TRUE, end |-> to, expr_name |-> name, match |-> Slice(t, from, to)]
    ELSE NoMatch

key(t, pos) == RegexNode("key", t, pos, Span(t, pos, KeyChars))

\* ~".+": a dot matches everything but a newline
value(t, pos) ==
    RegexNode("value", t, pos, IF pos <= Len(t) /\ t[pos] # NL
                      THEN Span(t, pos, {c \in Range(t) : c # NL}) ELSE pos)

newline(t, pos) == RegexNode("newline", t, pos, SpanMax(t, pos, {NL}, 1))

whitespace1(t, pos) == RegexNode("whitespace1", t, pos, SpanMax(t, pos, Whitespace, 1))

whitespace2(t, pos) ==
    LET e == SpanMax(t, pos, Whitespace, 2)
    IN  IF e = pos + 2 THEN RegexNode("whitespace2", t, pos, e) ELSE NoMatch

hostname(t, pos) == RegexNode("hostname", t, pos, Span(t, pos, HostnameChars))

port_number(t, pos) == RegexNode("port_number", t, pos, SpanMax(t, pos, Digits, 5))

-----------------------------------------------------------------------------
(* The grammar's rules.  A node keeps its children in order.  A sequence   *)
(* matches its members one after the other, each where the one before it   *)
(* ended, and fails as soon as one of them fails.                          *)

Node(name, end, children) ==
    [ok |-> TRUE, end |-> end, expr_name |-> name, children |-> children]

\* The empty sequence at pos
SequenceAt(name, pos) == Node(name, pos, <<>>)

\* The sequence acc with the next member's node n
WithMember(acc, n) ==
    IF n.ok THEN Node(acc.expr_name, n.end, Append(acc.children, n)) ELSE NoMatch

\* The terminal rule of that name, matched at pos
Terminal(rule, t, pos) ==
    CASE rule = "key"         -> key(t, pos)
      [] rule = "value"       -> value(t, pos)
      [] rule = "newline"     -> newline(t, pos)
      [] rule = "whitespace1" -> whitespace1(t, pos)
      [] rule = "whitespace2" -> whitespace2(t, pos)
      [] rule = "hostname"    -> hostname(t, pos)
      [] rule = "port_number" -> port_number(t, pos)

\* The sequence acc followed by the terminal rule
Then(acc, rule, t) ==
    IF acc.ok THEN WithMember(acc, Terminal(rule, t, acc.end)) ELSE NoMatch

\* first_line = key whitespace1 hostname newline
first_line(t, pos) ==
    Then(Then(Then(Then(SequenceAt("first_line", pos),
        "key", t), "whitespace1", t), "hostname", t), "newline", t)

\* port_line = whitespace2 key whitespace1 port_number newline
port_line(t, pos) ==
    Then(Then(Then(Then(Then(SequenceAt("port_line", pos),
        "whitespace2", t), "key", t), "whitespace1", t), "port_number", t), "newline", t)

\* arbitrary_line = whitespace2 key whitespace1 value newline
arbitrary_line(t, pos) ==
    Then(Then(Then(Then(Then(SequenceAt("arbitrary_line", pos),
        "whitespace2", t), "key", t), "whitespace1", t), "value", t), "newline", t)

\* last_line = whitespace2 key whitespace1 value
last_line(t, pos) ==
    Then(Then(Then(Then(SequenceAt("last_line", pos),
        "whitespace2", t), "key", t), "whitespace1", t), "value", t)

\* An ordered choice: the node of the first alternative that matched
OneOf(name, first, second) ==
    IF first.ok THEN Node(name, first.end, <<first>>)
    ELSE IF second.ok THEN Node(name, second.end, <<second>>)
    ELSE NoMatch

line_arbitrary_first(t, pos) ==
    OneOf("line", arbitrary_line(t, pos), port_line(t, pos))

\* line = port_line / arbitrary_line
line(t, pos) == OneOf("line", port_line(t, pos), arbitrary_line(t, pos))

\* line+: the nodes of the lines matched one after the other from pos, as
\* many as there are
RECURSIVE Lines(_, _)
LinesFrom(t, n) == IF n.ok THEN <<n>> \o Lines(t, n.end) ELSE <<>>

Lines(t, pos) == LinesFrom(t, line(t, pos))

\* The end of the last of the nodes ns
EndOf(ns) == ns[Len(ns)].end

\* last_line?: a list of one node or none
Optional(n) == IF n.ok THEN <<n>> ELSE <<>>

\* block = newline* first_line line+ last_line?
BlockNode(nls, f, ls, l) ==
    Node("block", IF l = <<>> THEN EndOf(ls) ELSE EndOf(l), <<nls, f, ls, l>>)

BlockLines_line_star(t, nls, f, ls) ==
    IF ls = <<>> THEN Node("block", f.end, <<nls, f, ls, <<>> >>)
    ELSE BlockNode(nls, f, ls, Optional(last_line(t, EndOf(ls))))

BlockLines(t, nls, f, ls) ==
    IF ls = <<>> THEN NoMatch
    ELSE BlockNode(nls, f, ls, Optional(last_line(t, EndOf(ls))))

BlockHeader(t, nls, f) ==
    IF f.ok THEN BlockLines(t, nls, f, Lines(t, f.end)) ELSE NoMatch

BlockNewlines(t, pos, e) == BlockHeader(t, Slice(t, pos, e), first_line(t, e))

block(t, pos) == BlockNewlines(t, pos, Span(t, pos, {NL}))

\* block+: the nodes of the blocks matched one after the other from pos
RECURSIVE Blocks(_, _)
BlocksFrom(t, n) == IF n.ok THEN <<n>> \o Blocks(t, n.end) ELSE <<>>

Blocks(t, pos) == BlocksFrom(t, block(t, pos))

\* output = block+
OneOrMore(name, ns) == IF ns = <<>> THEN NoMatch ELSE Node(name, EndOf(ns), ns)

output(t) == OneOrMore("output", Blocks(t, 1))

-----------------------------------------------------------------------------
(* Walker: the visitor that folds the parse tree into host dictionaries.   *)
(* A field value is a string or an int; a dictionary is the sequence of    *)
(* its items in iteration order (insertion order), its keys distinct.      *)

StrValue(s) == [type |-> "str", str |-> s, int |-> 0]
IntValue(n) == [type |-> "int", str |-> <<>>, int |-> n]

DigitValue(c) ==
    CASE c = "0" -> 0 [] c = "1" -> 1 [] c = "2" -> 2 [] c = "3" -> 3
      [] c = "4" -> 4 [] c = "5" -> 5 [] c = "6" -> 6 [] c = "7" -> 7
      [] c = "8" -> 8 [] c = "9" -> 9

\* int(s) of a run of decimal digits
RECURSIVE ParseInt(_)
ParseInt(s) ==
    IF s = <<>> THEN 0
    ELSE ParseInt(SubSeq(s, 1, Len(s) - 1)) * 10 + DigitValue(s[Len(s)])

\* A regular expression node reduces to the text it matched.
generic_visit(node) == StrValue(node.match)

visit_port_number(node) == IntValue(ParseInt(node.match))

\* The visit of a terminal: by the node's name, else generic_visit
VisitRegex(node) ==
    IF node.expr_name = "port_number" THEN visit_port_number(node)
    ELSE generic_visit(node)

Pair(k, v) == [key |-> k.str, val |-> v]

visit_first_line(node) ==
    LET child_results == [i \in 1..4 |-> VisitRegex(node.children[i])]
    IN  Pair(child_results[1], child_results[3])

visit_last_line(node) ==
    LET child_results == [i \in 1..4 |-> VisitRegex(node.children[i])]
    IN  Pair(child_results[2], child_results[4])

visit_arbitrary_line(node) ==
    LET child_results == [i \in 1..5 |-> VisitRegex(node.children[i])]
    IN  Pair(child_results[2], child_results[4])

visit_port_line(node) == visit_arbitrary_line(node)

\* line has no visit method: generic_visit returns the list of its one child
VisitLine(node) ==
    LET c == node.children[1] IN
    << IF c.expr_name = "port_line" THEN visit_port_line(c)
       ELSE visit_arbitrary_line(c) >>

RECURSIVE Flatten(_)
Flatten(ss) == IF ss = <<>> THEN <<>> ELSE Head(ss) \o Flatten(Tail(ss))

Keys(d) == {d[i].key : i \in 1..Len(d)}

DictSet_keep_first(d, k, v) ==
    IF k \in Keys(d) THEN d ELSE Append(d, [key |-> k, val |-> v])

\* d[k] = v of a dict: a new key goes last, a known key keeps its place
DictSet(d, k, v) ==
    IF k \in Keys(d)
    THEN [i \in 1..Len(d) |-> IF d[i].key = k THEN [key |-> k, val |-> v] ELSE d[i]]
    ELSE Append(d, [key |-> k, val |-> v])

\* d[k] of a dict that has the key
DictGet(d, k) == d[CHOOSE i \in 1..Len(d) : d[i].key = k].val

\* {k: v for (k, v) in lst}
RECURSIVE DictOf(_)
DictOf(lst) ==
    IF lst = <<>> THEN <<>>
    ELSE LET n == Len(lst)
         IN  DictSet(DictOf(SubSeq(lst, 1, n - 1)), lst[n].key, lst[n].val)

\* The list of (key, value) pairs visit_block folds: lst
BlockPairs(node) ==
    LET first      == visit_first_line(node.children[2])
        rest_lines == [i \in 1..Len(node.children[3]) |-> VisitLine(node.children[3][i])]
        flattened_rest == Flatten(rest_lines)
        last       == [i \in 1..Len(node.children[4]) |-> visit_last_line(node.children[4][i])]
    IN  IF Len(last) > 0
        THEN <<first>> \o flattened_rest \o <<last[1]>>
        ELSE <<first>> \o flattened_rest

visit_block(node) == DictOf(BlockPairs(node))

ParseError == [status |-> "error", records |-> <<>>]

\* Walker(Grammar(...)).match(full_text): the default rule matched at the
\* start of the text, then visited; a text the rule does not match raises.
\* The visit of the output node: the list of its blocks' dictionaries
VisitOutput(tree) ==
    IF ~tree.ok THEN ParseError
    ELSE [status  |-> "ok",
          records |-> [i \in 1..Len(tree.children) |-> visit_block(tree.children[i])]]

get_host_dicts(full_text) == VisitOutput(output(full_text))

-----------------------------------------------------------------------------
(* The text handed to get_host_dicts, typed line by line.  `lines` records *)
(* the lines typed (kind, key, value, whether newline-terminated) and      *)
(* `text` their characters.                                                *)

HostKey == <<"H", "o", "s", "t">>

HeaderLine(h)       == [kind |-> "header",  key |-> HostKey, val |-> h, nl |-> TRUE]
BodyLine(k, v, nl)  == [kind |-> "body",    key |-> k,       val |-> v, nl |-> nl]
BlankLine           == [kind |-> "blank",   key |-> <<>>,    val |-> <<>>, nl |-> TRUE]
\* a body line indented by one space only
Indent1Line(k, v)   == [kind |-> "indent1", key |-> k,       val |-> v, nl |-> TRUE]
\* a header line with no hostname
NoHostLine          == [kind |-> "nohost",  key |-> HostKey, val |-> <<>>, nl |-> TRUE]

Render(l) ==
    CASE l.kind = "header"  -> l.key \o <<SP>> \o l.val \o <<NL>>
      [] l.kind = "body"    -> <<SP, SP>> \o l.key \o <<SP>> \o l.val
                               \o (IF l.nl THEN <<NL>> ELSE <<>>)
      [] l.kind = "blank"   -> <<NL>>
      [] l.kind = "indent1" -> <<SP>> \o l.key \o <<SP>> \o l.val \o <<NL>>
      [] l.kind = "nohost"  -> l.key \o <<NL>>

RECURSIVE RenderAll(_)
RenderAll(ls) == IF ls = <<>> THEN <<>> ELSE Render(Head(ls)) \o RenderAll(Tail(ls))

\* Hostnames, keys and values of the documents of Spec
DocHostnames == {<<"a">>, <<"b">>}
DocBodies    == {[key |-> <<"k">>, val |-> <<"v">>], [key |-> <<"p">>, val |-> <<"7">>]}

\* Hostnames, keys and values of the single block of SpecBlock
BlockHostnames == {<<"b", "-", "1">>}
BlockKeys      == {<<"k">>, <<"p">>, HostKey}
BlockValues    == {<<"v">>, <<"0", "7">>, <<"1", "2", "3", "4", "5">>,
                   <<"1", "2", "3", "4", "5", "6">>, <<"7", "x">>}

NoResult == [status |-> "none", records |-> <<>>]

\* a line can be typed after a newline only
AtLineStart == IF lines = <<>> THEN TRUE ELSE lines[Len(lines)].nl

Type(l) ==
    /\ pc = "typing"
    /\ AtLineStart
    /\ text' = text \o Render(l)
    /\ lines' = Append(lines, l)
    /\ UNCHANGED <<pc, result, gvars, mvars>>

TypeHeader(h) == Type(HeaderLine(h))

TypeBody(k, v, nl) == Type(BodyLine(k, v, nl))

TypeBlank == Type(BlankLine)

TypeIndent1(k, v) == Type(Indent1Line(k, v))

TypeNoHost == Type(NoHostLine)

\* result = get_host_dicts(text)
CallGetHostDicts ==
    /\ pc = "typing"
    /\ result' = get_host_dicts(text)
    /\ pc' = "done"
    /\ UNCHANGED <<text, lines, gvars, mvars>>

NoGroups == <<>>
None == "None"
NoArgs == [list |-> FALSE, host |-> None, version |-> FALSE,
           pretty |-> FALSE, nometa |-> FALSE]
\* the process before it is started
NoProc == [started |-> FALSE, returncode |-> 0, stdout |-> <<>>, stderr |-> <<>>]

\* nothing typed, get_host_dicts not called
InitParser ==
    /\ text = <<>>
    /\ lines = <<>>
    /\ pc = "typing"
    /\ result = NoResult

\* get_groups not called
InitGroups ==
    /\ host_dicts = <<>>
    /\ groups = NoGroups

\* the program not started
MainIdle ==
    /\ argv = NoArgs
    /\ args = NoArgs
    /\ mpc = "idle"
    /\ branch = None
    /\ proc = NoProc
    /\ log = <<>>
    /\ printed = <<>>
    /\ raised = None
    /\ exit_code = None

Init == InitParser /\ InitGroups /\ MainIdle

\* a malformed line was typed
Malformed == \E i \in 1..Len(lines) : lines[i].kind \in {"indent1", "nohost"}

\* Documents: up to MaxLines lines, at most one of them malformed
MoreLines == Len(lines) < MaxLines

Next ==
    \/ \E h \in DocHostnames : MoreLines /\ TypeHeader(h)
    \/ \E b \in DocBodies, nl \in BOOLEAN : MoreLines /\ TypeBody(b.key, b.val, nl)
    \/ MoreLines /\ TypeBlank
    \/ \E b \in DocBodies : MoreLines /\ ~Malformed /\ TypeIndent1(b.key, b.val)
    \/ MoreLines /\ ~Malformed /\ TypeNoHost
    \/ CallGetHostDicts

Spec == Init /\ [][Next]_vars

\* One block: a header line, then up to MaxBody body lines
NextBlock ==
    \/ /\ lines = <<>>
       /\ \E h \in BlockHostnames : TypeHeader(h)
    \/ /\ lines # <<>>
       /\ Len(lines) <= MaxBody
       /\ \E k \in BlockKeys, v \in BlockValues, nl \in BOOLEAN : TypeBody(k, v, nl)
    \/ CallGetHostDicts

SpecBlock == Init /\ [][NextBlock]_vars

-----------------------------------------------------------------------------
(* What the typed lines say, for the statements below *)

IsDigitRun(v) == v # <<>> /\ \A i \in 1..Len(v) : v[i] \in Digits

\* The decimal value of a run of digits, most significant digit first
RECURSIVE DecimalFrom(_, _)
DecimalFrom(v, acc) ==
    IF v = <<>> THEN acc ELSE DecimalFrom(Tail(v), 10 * acc + DigitValue(Head(v)))

\* The value a newline-terminated body line is to give its field
Coerced(v) ==
    IF IsDigitRun(v) /\ Len(v) <= 5 THEN IntValue(DecimalFrom(v, 0)) ELSE StrValue(v)

\* The value line l is to give its field: only a newline-terminated body
\* line goes through the typed alternative
LineValue(l) == IF l.kind = "body" /\ l.nl THEN Coerced(l.val) ELSE StrValue(l.val)

LineKeys(ls) == {ls[i].key : i \in 1..Len(ls)}
FirstWith(ls, k) == CHOOSE i \in 1..Len(ls) :
                        ls[i].key = k /\ \A j \in 1..(i - 1) : ls[j].key # k
LastWith(ls, k) == CHOOSE i \in 1..Len(ls) :
                       ls[i].key = k /\ \A j \in (i + 1)..Len(ls) : ls[j].key # k

Count(rec, k) == Cardinality({p \in 1..Len(rec) : rec[p].key = k})
IndexOf(rec, k) == CHOOSE p \in 1..Len(rec) : rec[p].key = k
Field(rec, k) == rec[IndexOf(rec, k)].val

\* A header line followed by body lines only
OneBlock(ls) ==
    /\ ls # <<>>
    /\ ls[1].kind = "header"
    /\ \A i \in 2..Len(ls) : ls[i].kind = "body"

AllTerminated(ls) == \A i \in 1..Len(ls) : ls[i].nl

\* rec holds, for the lines ls of one block, each key once, in the order the
\* keys first occur, with the value of the last line that has the key
RecordOf(rec, ls) ==
    /\ Len(rec) = Cardinality(LineKeys(ls))
    /\ \A k \in LineKeys(ls) :
          /\ Count(rec, k) = 1
          /\ Field(rec, k) = LineValue(ls[LastWith(ls, k)])
    /\ \A k1, k2 \in LineKeys(ls) :
          FirstWith(ls, k1) < FirstWith(ls, k2) => IndexOf(rec, k1) < IndexOf(rec, k2)

Done == pc = "done"

-----------------------------------------------------------------------------
-----------------------------------------------------------------------------
\* C4: every newline-terminated body line whose key no later line repeats
\* gives its field the integer its value denotes when the value is a run of
\* 1 to 5 decimal digits, whatever the key, and the exact string otherwise
\* (6 digits or more, digits mixed with other characters, other text).
C4_NumericCoercion ==
    (Done /\ OneBlock(lines))
        => \A i \in 2..Len(lines) :
              (lines[i].nl /\ LastWith(lines, lines[i].key) = i)
                 => /\ result.status = "ok"
                    /\ Len(result.records) = 1
                    /\ Field(result.records[1], lines[i].key) =
                          (IF IsDigitRun(lines[i].val) /\ Len(lines[i].val) <= 5
                           THEN IntValue(DecimalFrom(lines[i].val, 0))
                           ELSE StrValue(lines[i].val))

C4_Witness ==
    /\ Done /\ OneBlock(lines) /\ Len(lines) = 4
    /\ lines[2] = BodyLine(<<"k">>, <<"0", "7">>, TRUE)
    /\ lines[3] = BodyLine(<<"p">>, <<"1", "2", "3", "4", "5", "6">>, TRUE)
    /\ lines[4] = BodyLine(HostKey, <<"1", "2", "3", "4", "5">>, TRUE)
    /\ Field(result.records[1], <<"k">>) = IntValue(7)
    /\ Field(result.records[1], <<"p">>) = StrValue(<<"1", "2", "3", "4", "5", "6">>)
    /\ Field(result.records[1], HostKey) = IntValue(12345)

-----------------------------------------------------------------------------
\* C6: when two lines of a block (header, body line or trailer) have the
\* same key and different values, the record holds the key exactly once,
\* with the value of the later line (the last with that key), at the
\* position of the key's first occurrence.
C6_DuplicateKeyOverwrite ==
    (Done /\ OneBlock(lines) /\ result.status = "ok")
        => \A i, j \in 1..Len(lines) :
              (/\ i < j
               /\ lines[i].key = lines[j].key
               /\ LineValue(lines[i]) # LineValue(lines[j])
               /\ LastWith(lines, lines[j].key) = j)
                 => LET rec == result.records[1]
                        k   == lines[j].key
                    IN  /\ Count(rec, k) = 1
                        /\ Field(rec, k) = LineValue(lines[j])
                        /\ IndexOf(rec, k) =
                              Cardinality({lines[m].key : m \in 1..FirstWith(lines, k)})

C6_Witness ==
    /\ Done /\ OneBlock(lines) /\ result.status = "ok"
    /\ Len(lines) = 4
    /\ lines[2].key = <<"k">> /\ lines[2].val = <<"v">>
    /\ lines[3].key = <<"p">>
    /\ lines[4].key = <<"k">> /\ lines[4].val = <<"7", "x">> /\ ~lines[4].nl
    /\ Len(result.records[1]) = 3
    /\ result.records[1][2] = [key |-> <<"k">>, val |-> StrValue(<<"7", "x">>)]

-----------------------------------------------------------------------------
\* The grammar matched the text over its whole length
EndsAt(tree, e) == tree.ok /\ tree.end = e
FullMatch(t) == EndsAt(output(t), Len(t) + 1)

\* C2 as stated: a text that does not conform to the grammar over its whole
\* length (here: one with a body line indented by one space only, or a
\* header line with no hostname) makes get_host_dicts fail; no records of a
\* well-formed prefix are returned.
C2_MalformedInputFails ==
    (Done /\ Malformed /\ ~FullMatch(text)) => result = ParseError

-----------------------------------------------------------------------------
\* C3 as stated: a text that parses and whose final line lacks a trailing
\* newline gives the same records, with the same keys, values and value
\* types, as the text with a newline appended.
C3_TrailingNewlineTolerance ==
    (Done /\ result.status = "ok" /\ ~AtLineStart)
        => get_host_dicts(Append(text, NL)) = result

-----------------------------------------------------------------------------
\* The lines are those of block1 + "\n\n" + block2 with the blank line at m:
\* each block a header line and body lines, its last line a body line that
\* has no newline of its own.
JoinedAt(ls, m) ==
    /\ 3 < m /\ m + 3 <= Len(ls)
    /\ ls[m].kind = "blank"
    /\ OneBlock(SubSeq(ls, 1, m - 1))
    /\ OneBlock(SubSeq(ls, m + 1, Len(ls)))
    /\ AllTerminated(SubSeq(ls, 1, Len(ls) - 1)) /\ ~ls[Len(ls)].nl

\* block1: the lines before the blank line without the last newline
Block1Text(ls, m) ==
    LET t == RenderAll(SubSeq(ls, 1, m - 1)) IN SubSeq(t, 1, Len(t) - 1)

Block2Text(ls, m) == RenderAll(SubSeq(ls, m + 1, Len(ls)))

\* C5 as stated: block1 + "\n\n" + block2 parses to exactly two records,
\* that of block1 then that of block2, each what parsing the block alone
\* returns (for blocks that parse alone).
C5_MultiBlockOrdering ==
    Done => \A m \in 1..Len(lines) :
               (/\ JoinedAt(lines, m)
                /\ get_host_dicts(Block1Text(lines, m)).status = "ok"
                /\ get_host_dicts(Block2Text(lines, m)).status = "ok")
                  => result = [status  |-> "ok",
                               records |-> get_host_dicts(Block1Text(lines, m)).records
                                           \o get_host_dicts(Block2Text(lines, m)).records]

-----------------------------------------------------------------------------
\* The indices of the header lines, in order
HeaderIndices(ls) == {i \in 1..Len(ls) : ls[i].kind = "header"}

\* Well-formed blocks separated by one or more blank lines: every line is a
\* header, a newline-terminated body line or a blank line; the first line
\* is a header, the last a body line; a header is followed by a body line;
\* a blank line follows a body line or a blank line, and a header follows
\* a blank line.
WellFormedBlocks(ls) ==
    /\ ls # <<>>
    /\ AllTerminated(ls)
    /\ \A i \in 1..Len(ls) : ls[i].kind \in {"header", "body", "blank"}
    /\ ls[1].kind = "header"
    /\ ls[Len(ls)].kind = "body"
    /\ \A i \in 1..(Len(ls) - 1) :
          /\ ls[i].kind = "header" => ls[i + 1].kind = "body"
          /\ ls[i].kind = "blank" => ls[i + 1].kind \in {"blank", "header"}
          /\ ls[i + 1].kind = "header" => ls[i].kind = "blank"

\* The header of the block that line i belongs to
BlockOf(ls, i) == CHOOSE h \in HeaderIndices(ls) :
                      h <= i /\ \A g \in HeaderIndices(ls) : g <= i => g <= h

\* C10 as stated: n well-formed blocks separated by one or more blank lines
\* parse to exactly n records; the i-th has the hostname of the i-th header
\* and only fields of lines of the i-th block.
C10_BlockIsolation ==
    (Done /\ WellFormedBlocks(lines))
        => /\ result.status = "ok"
           /\ Len(result.records) = Cardinality(HeaderIndices(lines))
           /\ \A h \in HeaderIndices(lines) :
                 LET n   == Cardinality({g \in HeaderIndices(lines) : g <= h})
                     rec == result.records[n]
                 IN  /\ Field(rec, HostKey) = StrValue(lines[h].val)
                     /\ Keys(rec) = {lines[i].key : i \in
                            {j \in 1..Len(lines) :
                                lines[j].kind # "blank" /\ BlockOf(lines, j) = h}}

-----------------------------------------------------------------------------
(* Inventory construction: get_role and get_groups *)

\* hosts handed to get_groups (specification SpecGroups)
MaxHosts == 3

ControlPrefix == <<"c", "o", "n", "t", "r", "o", "l", "-">>
WorkerPrefix  == <<"w", "o", "r", "k", "e", "r", "-">>

\* re.match(prefix + n times \\d, s): the pattern matched at the start of s
MatchesAtStart(s, prefix, n) ==
    /\ Len(s) >= Len(prefix) + n
    /\ SubSeq(s, 1, Len(prefix)) = prefix
    /\ \A i \in 1..n : s[Len(prefix) + i] \in Digits

get_role_worker_two_digits(host_dict) ==
    LET name == DictGet(host_dict, HostKey).str IN
    IF MatchesAtStart(name, ControlPrefix, 2) THEN "control"
    ELSE IF MatchesAtStart(name, WorkerPrefix, 2) THEN "worker"
    ELSE ""

get_role(host_dict) ==
    LET name == DictGet(host_dict, HostKey).str IN
    IF MatchesAtStart(name, ControlPrefix, 2) THEN "control"
    ELSE IF MatchesAtStart(name, WorkerPrefix, 3) THEN "worker"
    ELSE ""

RECURSIVE HostsWithRole(_, _)
HostsWithRole(hds, role) ==
    IF hds = <<>> THEN <<>>
    ELSE (IF get_role(Head(hds)) = role
          THEN <<DictGet(Head(hds), HostKey).str>> ELSE <<>>)
         \o HostsWithRole(Tail(hds), role)

GroupNames == {"role=control", "role=worker", "dc=vagrantdc"}

get_groups(hds) ==
    [g \in GroupNames |->
        CASE g = "role=control" -> HostsWithRole(hds, "control")
          [] g = "role=worker"  -> HostsWithRole(hds, "worker")
          [] g = "dc=vagrantdc" -> [i \in 1..Len(hds) |-> DictGet(hds[i], HostKey).str]]

GroupHostnames ==
    {<<"c", "o", "n", "t", "r", "o", "l", "-", "0", "1">>,
     <<"c", "o", "n", "t", "r", "o", "l", "-", "1">>,
     <<"c", "o", "n", "t", "r", "o", "l", "-", "0", "1", "2">>,
     <<"w", "o", "r", "k", "e", "r", "-", "0", "0", "1">>,
     <<"w", "o", "r", "k", "e", "r", "-", "0", "1">>,
     <<"t", "e", "s", "t", "f", "a", "i", "l">>}

\* a host record with the Host field only
HostDict(h) == <<[key |-> HostKey, val |-> StrValue(h)]>>

AddHostDict(h) ==
    /\ groups = NoGroups
    /\ Len(host_dicts) < MaxHosts
    /\ host_dicts' = Append(host_dicts, HostDict(h))
    /\ UNCHANGED <<groups, pvars, mvars>>

\* groups = get_groups(host_dicts)
CallGetGroups ==
    /\ groups = NoGroups
    /\ groups' = get_groups(host_dicts)
    /\ UNCHANGED <<host_dicts, pvars, mvars>>

NextGroups ==
    \/ \E h \in GroupHostnames : AddHostDict(h)
    \/ CallGetGroups

SpecGroups == Init /\ [][NextGroups]_vars

\* The hostnames of the records, in input order
HostsOf(hds) == [i \in 1..Len(hds) |-> DictGet(hds[i], HostKey).str]

\* s starts with prefix and then n decimal digits
StartsWith(s, prefix, n) ==
    \E rest \in 0..Len(s) :
        /\ Len(s) = Len(prefix) + n + rest
        /\ \A i \in 1..Len(prefix) : s[i] = prefix[i]
        /\ \A i \in (Len(prefix) + 1)..(Len(prefix) + n) : s[i] \in Digits

\* C8: get_groups returns exactly the groups role=control, role=worker and
\* dc=vagrantdc; dc=vagrantdc lists every record's Host in input order; a
\* Host is in role=control exactly when get_role returns "control" (the
\* name starts with control- and two digits), in role=worker exactly when
\* get_role returns "worker" (worker- and three digits), never in both, and
\* in neither when get_role returns "".
C8_GroupMembership ==
    groups # NoGroups =>
        /\ DOMAIN groups = {"role=control", "role=worker", "dc=vagrantdc"}
        /\ groups["dc=vagrantdc"] = HostsOf(host_dicts)
        /\ \A i \in 1..Len(host_dicts) :
              LET h    == HostsOf(host_dicts)[i]
                  inC  == h \in Range(groups["role=control"])
                  inW  == h \in Range(groups["role=worker"])
                  role == get_role(host_dicts[i])
              IN  /\ inC <=> role = "control"
                  /\ inC <=> StartsWith(h, <<"c", "o", "n", "t", "r", "o", "l", "-">>, 2)
                  /\ inW <=> role = "worker"
                  /\ inW <=> StartsWith(h, <<"w", "o", "r", "k", "e", "r", "-">>, 3)
                  /\ ~(inC /\ inW)
                  /\ role = "" <=> (~inC /\ ~inW)
        /\ Range(groups["role=control"]) \cup Range(groups["role=worker"])
              \subseteq Range(groups["dc=vagrantdc"])

C8_Witness ==
    /\ groups # NoGroups
    /\ HostsOf(host_dicts) = <<<<"w", "o", "r", "k", "e", "r", "-", "0", "0", "1">>, <<"t", "e", "s", "t", "f", "a", "i", "l">>, <<"c", "o", "n", "t", "r", "o", "l", "-", "0", "1">>>>
    /\ groups["role=worker"] = <<<<"w", "o", "r", "k", "e", "r", "-", "0", "0", "1">>>>
    /\ groups["role=control"] = <<<<"c", "o", "n", "t", "r", "o", "l", "-", "0", "1">>>>

-----------------------------------------------------------------------------
(* main, run as a script under the __main__ guard *)

PortKey     == <<"P", "o", "r", "t">>
HostNameKey == <<"H", "o", "s", "t", "N", "a", "m", "e">>

\* Outputs of `vagrant ssh-config`: two hosts; a host with neither HostName
\* nor Port; nothing
OutTwoHosts ==
    <<"H", "o", "s", "t", " ", "c", "o", "n", "t", "r", "o", "l", "-", "0",
      "1", "\n", " ", " ", "H", "o", "s", "t", "N", "a", "m", "e", " ",
      "x", "\n", " ", " ", "P", "o", "r", "t", " ", "2", "2", "0", "0",
      "\n", "\n", "H", "o", "s", "t", " ", "w", "o", "r", "k", "e", "r",
      "-", "0", "0", "1", "\n", " ", " ", "H", "o", "s", "t", "N", "a",
      "m", "e", " ", "y", "\n", " ", " ", "P", "o", "r", "t", " ", "2",
      "2", "2", "2", "\n", "\n">>
OutNoPort == <<"H", "o", "s", "t", " ", "a", "\n", " ", " ", "U", "s", "e", "r", " ", "v", "\n">>
SshConfigOutputs == {OutTwoHosts, OutNoPort, <<>>}

\* Values of --host
HostArgs == {None, <<"c", "o", "n", "t", "r", "o", "l", "-", "0", "1">>, <<"n", "o", "s", "u", "c", "h">>}

Argvs == [list : BOOLEAN, host : HostArgs, version : BOOLEAN,
          pretty : BOOLEAN, nometa : BOOLEAN]

SystemExit(code) == [type |-> "SystemExit", code |-> code]
Exception(type)  == [type |-> type, code |-> None]

InitMain ==
    /\ InitParser /\ InitGroups
    /\ argv \in Argvs
    /\ args = NoArgs
    /\ mpc = "parse_args"
    /\ branch = None
    /\ proc = NoProc
    /\ log = <<>>
    /\ printed = <<>>
    /\ raised = None
    /\ exit_code = None

\* The mode options given on the command line; they exclude each other
ModesGiven(a) ==
    (IF a.list THEN {"--list"} ELSE {})
    \cup (IF a.host # None THEN {"--host"} ELSE {})
    \cup (IF a.version THEN {"--version"} ELSE {})

\* args = parser.parse_args(): two options of the mutually exclusive group
\* are an error (parser.error exits with status 2); --list is store_true
\* with default=True, so args.list is True whether or not it was given.
ParseArgs ==
    /\ mpc = "parse_args"
    /\ IF Cardinality(ModesGiven(argv)) > 1
       THEN /\ raised' = SystemExit(2)
            /\ mpc' = "guard"
            /\ UNCHANGED args
       ELSE /\ args' = [argv EXCEPT !.list = TRUE]
            /\ mpc' = "dispatch"
            /\ UNCHANGED raised
    /\ UNCHANGED <<argv, branch, proc, log, printed, exit_code, pvars, gvars>>

\* if args.version: ... elif args.list: ... elif args.host: ... else: ...
BranchOf(a) ==
    IF a.version THEN "version"
    ELSE IF a.list THEN "list"
    ELSE IF a.host # None THEN "host"
    ELSE "usage"

Dispatch ==
    /\ mpc = "dispatch"
    /\ branch' = BranchOf(args)
    /\ IF branch' = "version"
       THEN /\ printed' = Append(printed, [kind |-> "version"])
            /\ mpc' = "parser_exit"
       ELSE IF branch' = "usage"
       THEN /\ printed' = Append(printed, [kind |-> "usage"])
            /\ mpc' = "parser_exit"
       ELSE /\ mpc' = "ssh_config_output"
            /\ UNCHANGED printed
    /\ UNCHANGED <<argv, args, proc, log, raised, exit_code, pvars, gvars>>

\* ssh_config_output(args.root): the process ends with returncode rc having
\* written out; a non-zero returncode is logged and exit(1) is called.
SshConfigOutput(rc, out) ==
    /\ mpc = "ssh_config_output"
    /\ proc' = [started |-> TRUE, returncode |-> rc, stdout |-> out,
                stderr |-> IF rc # 0 THEN <<"e", "r", "r">> ELSE <<>>]
    /\ IF rc # 0
       THEN /\ log' = log \o <<[level |-> "fatal", msg |-> "exit code", text |-> <<>>],
                               [level |-> "fatal", msg |-> "stdout", text |-> proc'.stdout],
                               [level |-> "fatal", msg |-> "stderr", text |-> proc'.stderr]>>
            /\ raised' = SystemExit(1)
            /\ mpc' = "guard"
       ELSE /\ mpc' = "get_host_dicts"
            /\ UNCHANGED <<log, raised>>
    /\ UNCHANGED <<argv, args, branch, printed, exit_code, pvars, gvars>>

generic_hostvars(host_dict) ==
    [v \in {"ansible_ssh_user", "ansible_ssh_port", "ansible_ssh_host"} |->
        CASE v = "ansible_ssh_user" -> StrValue(<<"v", "a", "g", "r", "a", "n", "t">>)
          [] v = "ansible_ssh_port" -> DictGet(host_dict, PortKey)
          [] v = "ansible_ssh_host" -> DictGet(host_dict, HostNameKey)]

mantl_hostvars(host_dict) ==
    [v \in {"public_ipv4", "private_ipv4", "role", "consul_is_server"} |->
        CASE v = "public_ipv4"  -> DictGet(host_dict, HostNameKey)
          [] v = "private_ipv4" -> DictGet(host_dict, HostNameKey)
          [] v = "role" -> get_role(host_dict)
          [] v = "consul_is_server" -> get_role(host_dict) = "control"]

group_hostvars(host_dict, grps) ==
    IF DictGet(host_dict, HostKey).str \in Range(grps["dc=vagrantdc"])
    THEN [v \in {"consul_dc", "publicly_routable", "provider"} |->
            CASE v = "consul_dc" -> "vagrantdc"
              [] v = "publicly_routable" -> TRUE
              [] v = "provider" -> "virtualbox"]
    ELSE <<>>

\* generic_hostvars raises KeyError for a host without Port or HostName
HasHostVars(host_dict) == {PortKey, HostNameKey} \subseteq Keys(host_dict)

\* inventory(host_dicts, mantl_specific=True), of hosts that have their
\* variables: the groups, and under _meta the variables of each host (the
\* later record of a hostname wins)
inventory(hds) ==
    LET grps  == get_groups(hds)
        names == Range(HostsOf(hds))
        last(h) == CHOOSE i \in 1..Len(hds) :
                      /\ HostsOf(hds)[i] = h
                      /\ \A j \in (i + 1)..Len(hds) : HostsOf(hds)[j] # h
    IN  [k \in GroupNames \cup {"_meta"} |->
            IF k = "_meta"
            THEN [h \in names |-> group_hostvars(hds[last(h)], grps)
                                   @@ mantl_hostvars(hds[last(h)])
                                   @@ generic_hostvars(hds[last(h)])]
            ELSE grps[k]]

\* del iv['_meta']
WithoutMeta(iv) == [k \in DOMAIN iv \ {"_meta"} |-> iv[k]]

\* The rest of the list and host branches of main, from get_host_dicts on
GetHostDictsAndPrint ==
    /\ mpc = "get_host_dicts"
    /\ LET hosts == get_host_dicts(proc.stdout) IN
       IF hosts.status = "error"
       THEN /\ raised' = Exception("ParseError")
            /\ mpc' = "guard"
            /\ UNCHANGED printed
       ELSE IF branch = "list"
       THEN IF \A i \in 1..Len(hosts.records) : HasHostVars(hosts.records[i])
            THEN /\ printed' = Append(printed,
                        [kind   |-> "inventory",
                         json   |-> IF args.nometa
                                    THEN WithoutMeta(inventory(hosts.records))
                                    ELSE inventory(hosts.records),
                         indent |-> IF args.pretty THEN 4 ELSE 0])
                 /\ mpc' = "parser_exit"
                 /\ UNCHANGED raised
            ELSE /\ raised' = Exception("KeyError")
                 /\ mpc' = "guard"
                 /\ UNCHANGED printed
       \* the host branch: dict.update returns None, so the chained update
       \* raises for the first host that has the name
       ELSE IF \E i \in 1..Len(hosts.records) :
                   DictGet(hosts.records[i], HostKey) = StrValue(args.host)
            THEN /\ raised' = Exception("AttributeError")
                 /\ mpc' = "guard"
                 /\ UNCHANGED printed
            ELSE /\ mpc' = "parser_exit"
                 /\ UNCHANGED <<printed, raised>>
    /\ UNCHANGED <<argv, args, branch, proc, log, exit_code, pvars, gvars>>

\* parser.exit(): sys.exit(0)
ParserExit ==
    /\ mpc = "parser_exit"
    /\ raised' = SystemExit(0)
    /\ mpc' = "guard"
    /\ UNCHANGED <<argv, args, branch, proc, log, printed, exit_code, pvars, gvars>>

\* try: main() / except SystemExit: pass / except: logging.exception; raise
Guard ==
    /\ mpc = "guard"
    /\ IF raised.type = "SystemExit"
       THEN /\ exit_code' = 0
            /\ UNCHANGED log
       ELSE /\ log' = Append(log, [level |-> "error", msg |-> "exception", text |-> <<>>])
            /\ exit_code' = 1
    /\ mpc' = "terminated"
    /\ UNCHANGED <<argv, args, branch, proc, printed, raised, pvars, gvars>>

NextMain ==
    \/ ParseArgs
    \/ Dispatch
    \/ \E rc \in {0, 1}, out \in SshConfigOutputs : SshConfigOutput(rc, out)
    \/ GetHostDictsAndPrint
    \/ ParserExit
    \/ Guard

SpecMain == InitMain /\ [][NextMain]_vars

Terminated == mpc = "terminated"

Logged(what, t) ==
    \E i \in 1..Len(log) : log[i].level = "fatal" /\ log[i].msg = what /\ log[i].text = t

\* C7 as stated: when `vagrant ssh-config` exits with a non-zero status
\* while the program runs as a script, the captured stdout and stderr are
\* logged, no inventory is printed and the program terminates with a
\* non-zero exit code.
C7_UpstreamFailureExitCode ==
    (Terminated /\ proc.started /\ proc.returncode # 0)
        => /\ Logged("stdout", proc.stdout)
           /\ Logged("stderr", proc.stderr)
           /\ printed = <<>>
           /\ exit_code # 0

\* C9 as stated: invoked with --host H and without --version (and so
\* without --list, which --host excludes), the program takes the
\* single-host branch and does not print the full inventory.
C9_HostModeDispatch ==
    (argv.host # None /\ ~argv.version /\ ~argv.list /\ branch # None)
        => /\ branch = "host"
           /\ \A i \in 1..Len(printed) : printed[i].kind # "inventory"

====
